---- MODULE Spec2Model ----
(***************************************************************************)
(* The interview page of src/src/main.ts and its summary worker            *)
(* (src/src/workers/summaryWorker.ts) as one state machine.                *)
(*                                                                         *)
(* Time is performance.now() in milliseconds (clock).  Every handler of    *)
(* the main thread (button click, interval callback, recognition events,   *)
(* worker messages, end of a speech-synthesis utterance) is one action;    *)
(* the worker's message handler is one action per message kind.            *)
(* Texts are sequences of one-character strings so that trim() and         *)
(* join(" ") are computed, not assumed.                                    *)
(*                                                                         *)
(* Not modelled: the DOM (transcript, filler and summary panels, the       *)
(* status line), and the two variables the code writes but never reads     *)
(* (sentencesSinceLastFiller, currentUtteranceStartMs).  The browser is    *)
(* one that has SpeechRecognition: without it the button is disabled       *)
(* (main.ts:399-403) and no handler ever runs.                             *)
(***************************************************************************)
EXTENDS Integers, Sequences, FiniteSets, TLC

(* ---------------- program constants ---------------- *)
SUMMARY_TRIGGER_SENTENCES == 3
FILLER_COOLDOWN_MS == 8000
FILLER_PAUSE_MS == 3500
RESPONSE_WAIT_MS == 6000
MAX_TRANSCRIPT_SENTENCES == 60
SUMMARY_SENTENCES_WINDOW == 30
POLL_MS == 800
CONTEXT_SENTENCES == 6
MIN_SUMMARY_CHARS == 50
NULL == -1

(* ---------------- bounds of the model ---------------- *)
\* The clock advances in steps of Quantum and stops at MaxNow (at MaxNowFair
\* under the specification with fairness).
Quantum == 2000
MaxNow == 24000
MaxNowFair == 10000
\* Finalized utterances accepted per interview: where prompts are studied,
\* and where summarization is.
MaxFinals == 1
MaxFinalsSum == 3
\* Messages in flight towards the worker / towards the main thread.
MaxQueue == 2
\* The clock stops at MaxNowThrow where a failing postMessage is studied.
MaxNowThrow == 16000
\* Finalized utterances per interview where the transcript buffer is studied:
\* more than MAX_TRANSCRIPT_SENTENCES.
MaxFinalsBuf == 62

VARIABLES
    clock,                    \* performance.now()
    hasTts,                   \* "speechSynthesis" in window
    isRecording,
    summaryWorkerReady,
    transcriptBuffer,
    lastFillerTime,
    fillerTimer,              \* handle of the interval, NULL when none
    intervals,                \* the browser's live intervals: handle -> due time
    lastFinalTranscriptMs,
    lastInterimTranscriptMs,
    isSpeakingFiller,
    lastSpeechActivityMs,
    suspendAutoRestart,
    recognitionActive,
    summaryInFlight,
    awaitingResponseUntilMs,
    speechActivityAtFillerMs,
    lockFillersUntilSpeech,
    engine,                   \* the SpeechRecognition object: idle, starting, running, stopping
    tts,                      \* utterances handed to speechSynthesis and not yet ended
    workerInbox,              \* messages posted to the worker, not yet handled
    mainInbox,                \* messages posted by the worker, not yet handled
    summarizer,               \* worker: the pipeline is loaded
    isInitializing,           \* worker: pipeline() is pending
    summarizing,              \* worker: texts whose summarizer() call is pending
    hist                      \* history of the run, read by the properties only

mainVars == <<isRecording, summaryWorkerReady, transcriptBuffer, lastFillerTime,
              fillerTimer, lastFinalTranscriptMs, lastInterimTranscriptMs,
              isSpeakingFiller, lastSpeechActivityMs, suspendAutoRestart,
              recognitionActive, summaryInFlight, awaitingResponseUntilMs,
              speechActivityAtFillerMs, lockFillersUntilSpeech>>
workerVars == <<summarizer, isInitializing, summarizing>>
envVars == <<clock, hasTts, intervals, engine, tts, workerInbox, mainInbox>>
vars == <<mainVars, workerVars, envVars, hist>>

(* ---------------- texts ---------------- *)
Blank == " "

RECURSIVE TrimLeft(_)
TrimLeft(s) == IF s # <<>> /\ Head(s) = Blank THEN TrimLeft(Tail(s)) ELSE s

RECURSIVE TrimRight(_)
TrimRight(s) ==
    IF s # <<>> /\ s[Len(s)] = Blank THEN TrimRight(SubSeq(s, 1, Len(s) - 1)) ELSE s

\* String.prototype.trim
Trim(s) == TrimRight(TrimLeft(s))

\* Array.prototype.slice(-n)
LastN(q, n) == IF Len(q) <= n THEN q ELSE SubSeq(q, Len(q) - n + 1, Len(q))

RECURSIVE Join(_)
\* Array.prototype.join(" ")
Join(q) ==
    IF q = <<>> THEN <<>>
    ELSE IF Len(q) = 1 THEN q[1]
    ELSE q[1] \o <<Blank>> \o Join(Tail(q))

(* ---------------- messages ---------------- *)
\* One shape for every message: its type, its text payload (text, context,
\* phrase or summary) and its number (progress).
Msg(type, text, n) == [type |-> type, text |-> text, n |-> n]

NotEnough == <<"N">>      \* "Not enough content yet."
SomeSummary == <<"S">>    \* a summary text produced by the model

\* The phrases the worker picks from, abbreviated; none is empty.
FillerPhrases == {<<"O", "k", ".">>}
FollowupPhrases == {<<"R", "e", "a", "d", "y", "?">>}

(* ---------------- inputs of the recognition events ---------------- *)
Long == [i \in 1..26 |-> "a"]
InterimTexts == {<<>>, <<Blank>>, <<"u", "m">>}
FinalTexts == {<<>>, <<Blank>>, <<"h", "i", Blank>>}
LongTexts == {<<>>, <<"h", "i">>, Long}

\* The k-th finalized transcript of a long interview, as the recognizer
\* delivers it: its number in two digits and a trailing blank.
Digits == <<"0", "1", "2", "3", "4", "5", "6", "7", "8", "9">>
Utterance(k) == <<Digits[((k \div 10) % 10) + 1], Digits[(k % 10) + 1], Blank>>

(* ---------------- the SpeechRecognition object ---------------- *)
\* recognition.start(): starts an idle recognizer, throws (ignored by every
\* caller) on one that is starting, running or stopping.
EngineStart(e) == IF e = "idle" THEN "starting" ELSE e

\* recognition.stop(): a started recognizer ends soon, with an end event.
EngineStop(e) == IF e \in {"starting", "running"} THEN "stopping" ELSE e

\* stopRecognition()
StopRecognition(e) == EngineStop(e)

\* startRecognition(): returns at once when the active flag is set.
StartRecognition(active, e) == IF active THEN e ELSE EngineStart(e)

(* ---------------- history ---------------- *)
\* hist records, for the properties: the last two prompt dispatches of the
\* current interview (prevKind, prevAt, lastKind, lastAt), whether speech activity was
\* recorded after the last filler and before its deadline (heard), whether a
\* poll tick ran at or after that deadline (ticked), and the number of prompts
\* dispatched since speech activity was last recorded (silent); the number of
\* finalized utterances recorded in the current interview (finals) and since
\* the last summarization trigger of appendFinalTranscript (sinceTrigger,
\* counted up to SUMMARY_TRIGGER_SENTENCES); whether the recognizer has
\* reported an error in the current interview (erred).
HistInit ==
    [prevKind |-> "none", prevAt |-> NULL, lastKind |-> "none", lastAt |-> NULL,
     heard |-> FALSE, ticked |-> FALSE, silent |-> 0, finals |-> 0, sinceTrigger |-> 0,
     erred |-> FALSE]

HistStart == [HistInit EXCEPT !.silent = hist.silent]

HistDispatch(h, kind, now) ==
    [h EXCEPT !.prevKind = h.lastKind, !.prevAt = h.lastAt, !.lastKind = kind,
              !.lastAt = now, !.heard = FALSE, !.ticked = FALSE, !.silent = @ + 1]

HistActivity(h, now) ==
    [h EXCEPT !.heard = @ \/ (h.lastKind = "filler" /\ now < h.lastAt + RESPONSE_WAIT_MS),
              !.silent = 0]

HistFinal(h, triggered) ==
    [h EXCEPT !.finals = @ + 1,
              !.sinceTrigger = IF triggered THEN 0
                               ELSE IF @ < SUMMARY_TRIGGER_SENTENCES THEN @ + 1
                               ELSE @]

HistTick(h, now) ==
    [h EXCEPT !.ticked = @ \/ (h.lastKind = "filler" /\ now >= h.lastAt + RESPONSE_WAIT_MS)]

(* ---------------- initial state ---------------- *)
\* The page has loaded (main.ts:106-135) and the worker's script has posted
\* worker-loaded (summaryWorker.ts:414).
Init ==
    /\ clock = 0
    /\ hasTts \in BOOLEAN
    /\ isRecording = FALSE
    /\ summaryWorkerReady = FALSE
    /\ transcriptBuffer = <<>>
    /\ lastFillerTime = 0
    /\ fillerTimer = NULL
    /\ intervals = {}
    /\ lastFinalTranscriptMs = 0
    /\ lastInterimTranscriptMs = 0
    /\ isSpeakingFiller = FALSE
    /\ lastSpeechActivityMs = 0
    /\ suspendAutoRestart = FALSE
    /\ recognitionActive = FALSE
    /\ summaryInFlight = FALSE
    /\ awaitingResponseUntilMs = NULL
    /\ speechActivityAtFillerMs = NULL
    /\ lockFillersUntilSpeech = FALSE
    /\ engine = "idle"
    /\ tts = 0
    /\ workerInbox = <<>>
    /\ mainInbox = <<Msg("worker-loaded", <<>>, 0)>>
    /\ summarizer = FALSE
    /\ isInitializing = FALSE
    /\ summarizing = 0
    /\ hist = HistInit

(* ---------------- time ---------------- *)
TickDue == \E t \in intervals : clock >= t.due

\* Time passes.  An interval that is due fires before time passes again.
Advance(maxNow) ==
    /\ clock + Quantum <= maxNow
    /\ ~TickDue
    /\ clock' = clock + Quantum
    /\ UNCHANGED <<mainVars, workerVars, hasTts, intervals, engine, tts,
                   workerInbox, mainInbox, hist>>

(* ---------------- the button ---------------- *)
\* Cleared for a clearInterval that clears nothing.
ClearedNothing(timers, handle) == timers

\* window.clearInterval(handle) on the browser's live intervals.
Cleared(timers, handle) == {t \in timers : t.id # handle}

\* Click on "Start Interview".
\* lastFillerTime carried over from the interview before.
CooldownStampAtStartKept == lastFillerTime

\* lastFillerTime as the start branch of the click handler sets it.
CooldownStampAtStart == clock

ClickStart ==
    /\ ~isRecording
    /\ isRecording' = TRUE
    /\ transcriptBuffer' = <<>>
    /\ summaryInFlight' = FALSE
    /\ lastFillerTime' = CooldownStampAtStart
    /\ lastFinalTranscriptMs' = clock
    /\ lastInterimTranscriptMs' = clock
    /\ lastSpeechActivityMs' = clock
    /\ awaitingResponseUntilMs' = NULL
    /\ speechActivityAtFillerMs' = NULL
    /\ lockFillersUntilSpeech' = FALSE
    /\ LET cleared == Cleared(intervals, fillerTimer)
           h == CHOOSE i \in 1..(Cardinality(cleared) + 1) : \A t \in cleared : t.id # i
       IN /\ fillerTimer' = h
          /\ intervals' = cleared \cup {[id |-> h, due |-> clock + POLL_MS]}
    /\ engine' = StartRecognition(recognitionActive, engine)
    /\ hist' = HistStart
    /\ UNCHANGED <<summaryWorkerReady, isSpeakingFiller, suspendAutoRestart,
                   recognitionActive, workerVars, clock, hasTts, tts,
                   workerInbox, mainInbox>>

\* StopSummarizes with the in-flight test of appendFinalTranscript added.
StopSummarizesIfIdle == Len(transcriptBuffer) > 0 /\ summaryWorkerReady /\ ~summaryInFlight

\* The final summarization of the stop branch.
StopSummarizes == Len(transcriptBuffer) > 0 /\ summaryWorkerReady

\* Click on "Stop Interview".
ClickStop ==
    /\ isRecording
    /\ Len(workerInbox) < MaxQueue
    /\ isRecording' = FALSE
    /\ engine' = StopRecognition(engine)
    /\ intervals' = Cleared(intervals, fillerTimer)
    /\ fillerTimer' = NULL
    /\ workerInbox' =
          IF StopSummarizes
          THEN Append(workerInbox, Msg("summarize", Join(transcriptBuffer), 0))
          ELSE workerInbox
    /\ UNCHANGED <<summaryWorkerReady, transcriptBuffer, lastFillerTime,
                   lastFinalTranscriptMs, lastInterimTranscriptMs, isSpeakingFiller,
                   lastSpeechActivityMs, suspendAutoRestart, recognitionActive,
                   summaryInFlight, awaitingResponseUntilMs, speechActivityAtFillerMs,
                   lockFillersUntilSpeech, workerVars, clock, hasTts, tts, mainInbox,
                   hist>>

(* ---------------- the poll tick ---------------- *)
\* context: transcriptBuffer.slice(-6).join(" ")
Context == Join(LastN(transcriptBuffer, CONTEXT_SENTENCES))

\* The interval callback is waiting for an answer to a filler.
Awaiting == awaitingResponseUntilMs # NULL /\ speechActivityAtFillerMs # NULL

\* ActivityAtIssue of a filler branch that forgets the activity time.
ActivityAtIssueUnset == NULL

\* speechActivityAtFillerMs of the filler branch: the activity time at issue.
ActivityAtIssue == lastSpeechActivityMs

\* FollowUpDue without its test of the speaking flag.
FollowUpDueWhileSpeaking == ~(lastSpeechActivityMs > speechActivityAtFillerMs)

\* The follow-up is asked: nobody spoke since the filler, no prompt is spoken.
FollowUpDue ==
    /\ ~(lastSpeechActivityMs > speechActivityAtFillerMs)
    /\ ~isSpeakingFiller

\* FillerDue of a callback that never finds a filler due.
FillerDueNever(now) == FALSE

\* FillerDue without its cooldown test.
FillerDueNoCooldown(now) ==
    /\ ~(now - lastSpeechActivityMs < FILLER_PAUSE_MS)
    /\ ~isSpeakingFiller
    /\ ~(Len(transcriptBuffer) = 0)

\* FillerDue with the response wait taken for the cooldown.
FillerDueShortCooldown(now) ==
    /\ ~(now - lastSpeechActivityMs < FILLER_PAUSE_MS)
    /\ ~isSpeakingFiller
    /\ ~(now - lastFillerTime < RESPONSE_WAIT_MS)
    /\ ~(Len(transcriptBuffer) = 0)

\* FillerDue without its pause test.
FillerDueNoPause(now) ==
    /\ ~isSpeakingFiller
    /\ ~(now - lastFillerTime < FILLER_COOLDOWN_MS)
    /\ ~(Len(transcriptBuffer) = 0)

\* FillerDue without its test of the speaking flag.
FillerDueWhileSpeaking(now) ==
    /\ ~(now - lastSpeechActivityMs < FILLER_PAUSE_MS)
    /\ ~(now - lastFillerTime < FILLER_COOLDOWN_MS)
    /\ ~(Len(transcriptBuffer) = 0)

\* FillerDue without its test of the transcript buffer.
FillerDueEmptyBuffer(now) ==
    /\ ~(now - lastSpeechActivityMs < FILLER_PAUSE_MS)
    /\ ~isSpeakingFiller
    /\ ~(now - lastFillerTime < FILLER_COOLDOWN_MS)

\* The four conditions of a filler at time now.
FillerDue(now) ==
    /\ ~(now - lastSpeechActivityMs < FILLER_PAUSE_MS)
    /\ ~isSpeakingFiller
    /\ ~(now - lastFillerTime < FILLER_COOLDOWN_MS)
    /\ ~(Len(transcriptBuffer) = 0)

\* The interval callback, at time now = clock.
Tick ==
    \E t \in intervals :
      /\ clock >= t.due
      /\ Len(workerInbox) < MaxQueue
      /\ intervals' = (intervals \ {t}) \cup {[id |-> t.id, due |-> clock + POLL_MS]}
      /\ LET now == clock IN
         IF ~isRecording \/ lockFillersUntilSpeech
         THEN /\ hist' = HistTick(hist, now)
              /\ UNCHANGED <<lastFillerTime, awaitingResponseUntilMs,
                             speechActivityAtFillerMs, lockFillersUntilSpeech,
                             workerInbox>>
         ELSE IF Awaiting
         THEN IF now >= awaitingResponseUntilMs
              THEN /\ awaitingResponseUntilMs' = NULL
                   /\ speechActivityAtFillerMs' = NULL
                   /\ IF FollowUpDue
                      THEN /\ workerInbox' =
                                Append(workerInbox, Msg("generate-followup", Context, 0))
                           /\ lockFillersUntilSpeech' = TRUE
                           /\ lastFillerTime' = now
                           /\ hist' = HistDispatch(HistTick(hist, now), "followup", now)
                      ELSE /\ hist' = HistTick(hist, now)
                           /\ UNCHANGED <<workerInbox, lockFillersUntilSpeech,
                                          lastFillerTime>>
              ELSE /\ hist' = HistTick(hist, now)
                   /\ UNCHANGED <<lastFillerTime, awaitingResponseUntilMs,
                                  speechActivityAtFillerMs, lockFillersUntilSpeech,
                                  workerInbox>>
         ELSE IF FillerDue(now)
         THEN /\ lastFillerTime' = now
              /\ awaitingResponseUntilMs' = now + RESPONSE_WAIT_MS
              /\ speechActivityAtFillerMs' = ActivityAtIssue
              /\ workerInbox' = Append(workerInbox, Msg("generate-filler", Context, 0))
              /\ hist' = HistDispatch(HistTick(hist, now), "filler", now)
              /\ UNCHANGED lockFillersUntilSpeech
         ELSE /\ hist' = HistTick(hist, now)
              /\ UNCHANGED <<lastFillerTime, awaitingResponseUntilMs,
                             speechActivityAtFillerMs, lockFillersUntilSpeech,
                             workerInbox>>
      /\ UNCHANGED <<isRecording, summaryWorkerReady, transcriptBuffer, fillerTimer,
                     lastFinalTranscriptMs, lastInterimTranscriptMs, isSpeakingFiller,
                     lastSpeechActivityMs, suspendAutoRestart, recognitionActive,
                     summaryInFlight, workerVars, clock, hasTts, engine, tts,
                     mainInbox>>

\* The interval callback when summaryWorker.postMessage throws: the filler
\* branch has made its assignments before the call, the follow-up branch
\* makes them after it, and the exception leaves the callback.
TickPostThrows ==
    \E t \in intervals :
      /\ clock >= t.due
      /\ isRecording
      /\ ~lockFillersUntilSpeech
      /\ intervals' = (intervals \ {t}) \cup {[id |-> t.id, due |-> clock + POLL_MS]}
      /\ LET now == clock IN
         IF Awaiting
         THEN /\ now >= awaitingResponseUntilMs
              /\ FollowUpDue
              /\ UNCHANGED <<lastFillerTime, awaitingResponseUntilMs,
                             speechActivityAtFillerMs>>
         ELSE /\ FillerDue(now)
              /\ lastFillerTime' = now
              /\ awaitingResponseUntilMs' = now + RESPONSE_WAIT_MS
              /\ speechActivityAtFillerMs' = ActivityAtIssue
      /\ hist' = HistTick(hist, clock)
      /\ UNCHANGED <<isRecording, summaryWorkerReady, transcriptBuffer, fillerTimer,
                     lastFinalTranscriptMs, lastInterimTranscriptMs, isSpeakingFiller,
                     lastSpeechActivityMs, suspendAutoRestart, recognitionActive,
                     summaryInFlight, lockFillersUntilSpeech, workerVars, clock,
                     hasTts, engine, tts, workerInbox, mainInbox>>

(* ---------------- recognition events ---------------- *)
\* InterimRecorded without the trim of recognition.onresult.
InterimRecordedUntrimmed(interim) == interim # <<>>

\* setInterimTranscript(text) records activity only for a non-empty text.
InterimRecorded(interim) == interim # <<>> /\ Trim(interim) # <<>>

\* appendFinalTranscript runs only for a finalized text that is not blank.
FinalRecorded(finalized) == Trim(finalized) # <<>>

\* StampsActivity with the stamp missing from setInterimTranscript.
StampsActivityFinalOnly(heardInterim, heardFinal) == heardFinal

\* Recorded activity of either kind stamps lastSpeechActivityMs.
StampsActivity(heardInterim, heardFinal) == heardInterim \/ heardFinal

\* CancelsCycle with the reset missing from setInterimTranscript.
CancelsCycleFinalOnly(heardInterim, heardFinal) == heardFinal

\* Recorded activity of either kind clears the lock and the awaited response
\* (setInterimTranscript, appendFinalTranscript).
CancelsCycle(heardInterim, heardFinal) == heardInterim \/ heardFinal

\* Pushed without the slice that evicts the oldest entries.
PushedNoEviction(buffer, text) == Append(buffer, text)

\* The buffer after appendFinalTranscript(text).
Pushed(buffer, text) == LastN(Append(buffer, text), MAX_TRANSCRIPT_SENTENCES)

\* The summarization trigger of appendFinalTranscript, on the buffer after the push.
SummaryDue(buffer) ==
    /\ Len(buffer) >= SUMMARY_TRIGGER_SENTENCES
    /\ summaryWorkerReady
    /\ ~summaryInFlight

\* recognition.onresult with the concatenated interim and finalized transcripts
\* of the event.
OnResultOf(interim, finalized, maxFinals) ==
      /\ engine \in {"running", "stopping"}
      /\ FinalRecorded(finalized) =>
            hist.finals < maxFinals /\ Len(workerInbox) < MaxQueue
      /\ LET now == clock
             heardInterim == InterimRecorded(interim)
             heardFinal == FinalRecorded(finalized)
             buffer == IF heardFinal
                       THEN Pushed(transcriptBuffer, Trim(finalized))
                       ELSE transcriptBuffer
             summarize == heardFinal /\ SummaryDue(buffer)
         IN /\ transcriptBuffer' = buffer
            /\ lastInterimTranscriptMs' =
                  IF heardInterim THEN now ELSE lastInterimTranscriptMs
            /\ lastFinalTranscriptMs' =
                  IF heardFinal THEN now ELSE lastFinalTranscriptMs
            /\ lastSpeechActivityMs' =
                  IF StampsActivity(heardInterim, heardFinal)
                  THEN now ELSE lastSpeechActivityMs
            /\ hist' =
                  LET h == IF heardInterim \/ heardFinal
                           THEN HistActivity(hist, now) ELSE hist
                  IN IF heardFinal THEN HistFinal(h, summarize) ELSE h
            /\ IF CancelsCycle(heardInterim, heardFinal)
               THEN /\ lockFillersUntilSpeech' = FALSE
                    /\ awaitingResponseUntilMs' = NULL
                    /\ speechActivityAtFillerMs' = NULL
               ELSE UNCHANGED <<lockFillersUntilSpeech, awaitingResponseUntilMs,
                                speechActivityAtFillerMs>>
            /\ summaryInFlight' = (summaryInFlight \/ summarize)
            /\ workerInbox' =
                  IF summarize
                  THEN Append(workerInbox,
                              Msg("summarize",
                                  Join(LastN(buffer, SUMMARY_SENTENCES_WINDOW)), 0))
                  ELSE workerInbox
      /\ UNCHANGED <<isRecording, summaryWorkerReady, lastFillerTime, fillerTimer,
                     isSpeakingFiller, suspendAutoRestart, recognitionActive,
                     workerVars, clock, hasTts, intervals, engine, tts, mainInbox>>

\* recognition.onresult, for the events the recognizer may deliver.
OnResult(interims, finals, maxFinals) ==
    \E interim \in interims, finalized \in finals :
      OnResultOf(interim, finalized, maxFinals)

\* recognition.onstart
OnStart ==
    /\ engine = "starting"
    /\ engine' = "running"
    /\ recognitionActive' = TRUE
    /\ UNCHANGED <<isRecording, summaryWorkerReady, transcriptBuffer, lastFillerTime,
                   fillerTimer, lastFinalTranscriptMs, lastInterimTranscriptMs,
                   isSpeakingFiller, lastSpeechActivityMs, suspendAutoRestart,
                   summaryInFlight, awaitingResponseUntilMs, speechActivityAtFillerMs,
                   lockFillersUntilSpeech, workerVars, clock, hasTts, intervals, tts,
                   workerInbox, mainInbox, hist>>

\* RecordingAfterError of an onerror that gives the interview up.
RecordingAfterErrorStopped == FALSE

\* recognition.onerror leaves the recording flag as it is.
RecordingAfterError == isRecording

\* recognition.onerror: the status line shows the error; the recognizer ends
\* the session and will deliver its end event.
OnRecognitionError ==
    /\ engine \in {"starting", "running"}
    /\ engine' = "stopping"
    /\ isRecording' = RecordingAfterError
    /\ hist' = [hist EXCEPT !.erred = TRUE]
    /\ UNCHANGED <<summaryWorkerReady, transcriptBuffer, lastFillerTime,
                   fillerTimer, lastFinalTranscriptMs, lastInterimTranscriptMs,
                   isSpeakingFiller, lastSpeechActivityMs, suspendAutoRestart,
                   recognitionActive, summaryInFlight, awaitingResponseUntilMs,
                   speechActivityAtFillerMs, lockFillersUntilSpeech, workerVars,
                   clock, hasTts, intervals, tts, workerInbox, mainInbox>>

\* RestartOnEnd of a recognition.onend that never restarts.
RestartOnEndNever == FALSE

\* The auto-restart of recognition.onend.
RestartOnEnd == isRecording /\ ~suspendAutoRestart

\* recognition.onend: the stream ended, on its own or after stop().
OnEnd ==
    /\ engine \in {"running", "stopping"}
    /\ recognitionActive' = FALSE
    /\ engine' = IF RestartOnEnd THEN EngineStart("idle") ELSE "idle"
    /\ UNCHANGED <<isRecording, summaryWorkerReady, transcriptBuffer, lastFillerTime,
                   fillerTimer, lastFinalTranscriptMs, lastInterimTranscriptMs,
                   isSpeakingFiller, lastSpeechActivityMs, suspendAutoRestart,
                   summaryInFlight, awaitingResponseUntilMs, speechActivityAtFillerMs,
                   lockFillersUntilSpeech, workerVars, clock, hasTts, intervals, tts,
                   workerInbox, mainInbox, hist>>

(* ---------------- prompt delivery ---------------- *)
\* SpeakAccepted without its test of the speaking flag.
SpeakAcceptedWhileSpeaking(phrase) == Trim(phrase) # <<>>

\* speakFiller(phrase) goes past its two early returns.
SpeakAccepted(phrase) == ~isSpeakingFiller /\ Trim(phrase) # <<>>

\* ResumeAfterSpeak without its test of isRecording.
ResumeAfterSpeakAlways == TRUE

\* The finally block of speakFiller restarts recognition.
ResumeAfterSpeak == isRecording

\* The recognizer after the finally block of speakFiller, from recognizer e.
Resumed(e) == IF ResumeAfterSpeak THEN StartRecognition(recognitionActive, e) ELSE e

\* speakFiller(phrase) up to its await.  Without speechSynthesis the promise
\* of speakTts is already resolved and the finally block runs before any other
\* event.
SpeakFiller(phrase) ==
    IF ~SpeakAccepted(phrase)
    THEN UNCHANGED <<isSpeakingFiller, suspendAutoRestart, engine, tts>>
    ELSE IF hasTts
    THEN /\ isSpeakingFiller' = TRUE
         /\ suspendAutoRestart' = TRUE
         /\ engine' = StopRecognition(engine)
         /\ tts' = tts + 1
    ELSE /\ isSpeakingFiller' = FALSE
         /\ suspendAutoRestart' = FALSE
         /\ engine' = Resumed(StopRecognition(engine))
         /\ tts' = tts

\* summaryWorker.onmessage, type filler
OnFillerMessage ==
    /\ mainInbox # <<>>
    /\ Head(mainInbox).type = "filler"
    /\ mainInbox' = Tail(mainInbox)
    /\ SpeakFiller(Head(mainInbox).text)
    /\ UNCHANGED <<isRecording, summaryWorkerReady, transcriptBuffer, lastFillerTime,
                   fillerTimer, lastFinalTranscriptMs, lastInterimTranscriptMs,
                   lastSpeechActivityMs, recognitionActive, summaryInFlight,
                   awaitingResponseUntilMs, speechActivityAtFillerMs,
                   lockFillersUntilSpeech, workerVars, clock, hasTts, intervals,
                   workerInbox, hist>>

\* utter.onend or utter.onerror: the promise of speakTts resolves and the
\* finally block of speakFiller runs.
OnTtsEnd ==
    \E outcome \in {"end", "error"} :
      /\ tts > 0
      /\ tts' = tts - 1
      /\ isSpeakingFiller' = FALSE
      /\ suspendAutoRestart' = FALSE
      /\ engine' = Resumed(engine)
      /\ UNCHANGED <<isRecording, summaryWorkerReady, transcriptBuffer, lastFillerTime,
                     fillerTimer, lastFinalTranscriptMs, lastInterimTranscriptMs,
                     lastSpeechActivityMs, recognitionActive, summaryInFlight,
                     awaitingResponseUntilMs, speechActivityAtFillerMs,
                     lockFillersUntilSpeech, workerVars, clock, hasTts, intervals,
                     workerInbox, mainInbox, hist>>

(* ---------------- the other worker messages, on the main thread ---------------- *)
flowVars == <<isRecording, transcriptBuffer, lastFillerTime, fillerTimer,
              lastFinalTranscriptMs, lastInterimTranscriptMs, isSpeakingFiller,
              lastSpeechActivityMs, suspendAutoRestart, recognitionActive,
              awaitingResponseUntilMs, speechActivityAtFillerMs,
              lockFillersUntilSpeech, clock, hasTts, intervals, engine, tts, hist>>

\* type worker-loaded: the main thread asks the worker to initialize.
OnWorkerLoaded ==
    /\ mainInbox # <<>>
    /\ Head(mainInbox).type = "worker-loaded"
    /\ mainInbox' = Tail(mainInbox)
    /\ workerInbox' = Append(workerInbox, Msg("init", <<>>, 0))
    /\ UNCHANGED <<flowVars, summaryWorkerReady, summaryInFlight, workerVars>>

\* type model-load: progress 100 marks the summarizer ready.
OnModelLoad ==
    /\ mainInbox # <<>>
    /\ Head(mainInbox).type = "model-load"
    /\ mainInbox' = Tail(mainInbox)
    /\ summaryWorkerReady' = (summaryWorkerReady \/ Head(mainInbox).n = 100)
    /\ UNCHANGED <<flowVars, summaryInFlight, workerVars, workerInbox>>

\* type ready
OnReady ==
    /\ mainInbox # <<>>
    /\ Head(mainInbox).type = "ready"
    /\ mainInbox' = Tail(mainInbox)
    /\ summaryWorkerReady' = TRUE
    /\ UNCHANGED <<flowVars, summaryInFlight, workerVars, workerInbox>>

\* summaryInFlight left as it is by a reply.
InFlightAfterReplyKept == summaryInFlight

\* summaryInFlight once a summary or an error message has been handled.
InFlightAfterReply == FALSE

\* type summary
OnSummary ==
    /\ mainInbox # <<>>
    /\ Head(mainInbox).type = "summary"
    /\ mainInbox' = Tail(mainInbox)
    /\ summaryInFlight' = InFlightAfterReply
    /\ UNCHANGED <<flowVars, summaryWorkerReady, workerVars, workerInbox>>

\* type error
OnError ==
    /\ mainInbox # <<>>
    /\ Head(mainInbox).type = "error"
    /\ mainInbox' = Tail(mainInbox)
    /\ summaryInFlight' = InFlightAfterReply
    /\ UNCHANGED <<flowVars, summaryWorkerReady, workerVars, workerInbox>>

(* ---------------- the worker ---------------- *)
workerFrame == <<mainVars, clock, hasTts, intervals, engine, tts, hist>>

\* self.onmessage, type init: starts loading the pipeline, once.
WorkerInit ==
    /\ workerInbox # <<>>
    /\ Head(workerInbox).type = "init"
    /\ Len(mainInbox) < MaxQueue
    /\ workerInbox' = Tail(workerInbox)
    /\ IF isInitializing \/ summarizer
       THEN UNCHANGED <<isInitializing, mainInbox>>
       ELSE /\ isInitializing' = TRUE
            /\ mainInbox' = Append(mainInbox, Msg("model-load", <<>>, 0))
    /\ UNCHANGED <<workerFrame, summarizer, summarizing>>

\* progress_callback of pipeline(): Math.round(progress.progress), not 0.
WorkerProgress ==
    \E p \in {50, 100} :
      /\ isInitializing
      /\ Len(mainInbox) < MaxQueue
      /\ mainInbox' = Append(mainInbox, Msg("model-load", <<>>, p))
      /\ UNCHANGED <<workerFrame, workerVars, workerInbox>>

\* pipeline() resolves: model-load 100 and ready are posted.
WorkerPipelineLoaded ==
    /\ isInitializing
    /\ Len(mainInbox) < MaxQueue
    /\ summarizer' = TRUE
    /\ isInitializing' = FALSE
    /\ mainInbox' = mainInbox \o <<Msg("model-load", <<>>, 100), Msg("ready", <<>>, 0)>>
    /\ UNCHANGED <<workerFrame, summarizing, workerInbox>>

\* pipeline() rejects: an error is posted.
WorkerPipelineFailed ==
    /\ isInitializing
    /\ Len(mainInbox) < MaxQueue
    /\ isInitializing' = FALSE
    /\ mainInbox' = Append(mainInbox, Msg("error", <<>>, 0))
    /\ UNCHANGED <<workerFrame, summarizer, summarizing, workerInbox>>

\* TooShort tested after the test of the summarizer, not before it.
TooShortWhenLoaded(text) ==
    summarizer /\ (text = <<>> \/ Len(Trim(text)) < MIN_SUMMARY_CHARS)

\* The text of a summarize message is too short to summarize.
TooShort(text) == text = <<>> \/ Len(Trim(text)) < MIN_SUMMARY_CHARS

\* self.onmessage, type summarize, up to the await of summarizer().
WorkerSummarize ==
    /\ workerInbox # <<>>
    /\ Head(workerInbox).type = "summarize"
    /\ Len(mainInbox) < MaxQueue
    /\ workerInbox' = Tail(workerInbox)
    /\ LET text == Head(workerInbox).text IN
       IF TooShort(text)
       THEN /\ mainInbox' = Append(mainInbox, Msg("summary", NotEnough, 0))
            /\ UNCHANGED summarizing
       ELSE IF ~summarizer
       THEN /\ mainInbox' = Append(mainInbox, Msg("error", <<>>, 0))
            /\ UNCHANGED summarizing
       ELSE /\ summarizing < MaxQueue
            /\ summarizing' = summarizing + 1
            /\ UNCHANGED mainInbox
    /\ UNCHANGED <<workerFrame, summarizer, isInitializing>>

\* summarizer() resolves (a summary is posted) or rejects (an error is posted).
WorkerSummarized ==
    \E ok \in BOOLEAN :
      /\ summarizing > 0
      /\ Len(mainInbox) < MaxQueue
      /\ summarizing' = summarizing - 1
      /\ mainInbox' = Append(mainInbox,
                             IF ok THEN Msg("summary", SomeSummary, 0)
                             ELSE Msg("error", <<>>, 0))
      /\ UNCHANGED <<workerFrame, summarizer, isInitializing, workerInbox>>

\* self.onmessage, type generate-filler or generate-followup: a phrase is posted.
WorkerGenerate ==
    /\ workerInbox # <<>>
    /\ Head(workerInbox).type \in {"generate-filler", "generate-followup"}
    /\ Len(mainInbox) < MaxQueue
    /\ workerInbox' = Tail(workerInbox)
    /\ \E phrase \in IF Head(workerInbox).type = "generate-filler"
                     THEN FillerPhrases ELSE FollowupPhrases :
         mainInbox' = Append(mainInbox, Msg("filler", phrase, 0))
    /\ UNCHANGED <<workerFrame, workerVars>>

(* ---------------- specifications ---------------- *)
\* The state once the worker has begun to load its model: the main thread has
\* answered worker-loaded with init, the worker has taken init and its first
\* model-load message (progress 0) has been handled.
InitLoading ==
    /\ clock = 0
    /\ hasTts \in BOOLEAN
    /\ isRecording = FALSE
    /\ summaryWorkerReady = FALSE
    /\ transcriptBuffer = <<>>
    /\ lastFillerTime = 0
    /\ fillerTimer = NULL
    /\ intervals = {}
    /\ lastFinalTranscriptMs = 0
    /\ lastInterimTranscriptMs = 0
    /\ isSpeakingFiller = FALSE
    /\ lastSpeechActivityMs = 0
    /\ suspendAutoRestart = FALSE
    /\ recognitionActive = FALSE
    /\ summaryInFlight = FALSE
    /\ awaitingResponseUntilMs = NULL
    /\ speechActivityAtFillerMs = NULL
    /\ lockFillersUntilSpeech = FALSE
    /\ engine = "idle"
    /\ tts = 0
    /\ workerInbox = <<>>
    /\ mainInbox = <<>>
    /\ summarizer = FALSE
    /\ isInitializing = TRUE
    /\ summarizing = 0
    /\ hist = HistInit

\* Interviews while the model is still loading: the poll tick, the prompts,
\* their delivery and the recognition session, over MaxNow milliseconds.
NextFlow ==
    \/ Advance(MaxNow)
    \/ ClickStart
    \/ ClickStop
    \/ Tick
    \/ OnResult(InterimTexts, FinalTexts, MaxFinals)
    \/ OnStart
    \/ OnEnd
    \/ OnFillerMessage
    \/ OnTtsEnd
    \/ WorkerGenerate

Spec == InitLoading /\ [][NextFlow]_vars

\* The summarization protocol, from the page load on, within the first
\* POLL_MS milliseconds of the clock (no step of it reads the clock).
NextSum ==
    \/ ClickStart
    \/ ClickStop
    \/ OnResult(InterimTexts, LongTexts, MaxFinalsSum)
    \/ OnStart
    \/ OnEnd
    \/ OnWorkerLoaded
    \/ OnModelLoad
    \/ OnReady
    \/ OnSummary
    \/ OnError
    \/ WorkerInit
    \/ WorkerProgress
    \/ WorkerPipelineLoaded
    \/ WorkerPipelineFailed
    \/ WorkerSummarize
    \/ WorkerSummarized

SpecSum == Init /\ [][NextSum]_vars

\* speakFiller under any caller: a filler message with any phrase, blank ones
\* included, may arrive at any time (the worker itself posts no blank phrase).
AnyPhrases == {<<>>, <<Blank>>, <<Blank, Blank>>} \cup FillerPhrases

PostFiller ==
    \E phrase \in AnyPhrases :
      /\ Len(mainInbox) < MaxQueue
      /\ mainInbox' = Append(mainInbox, Msg("filler", phrase, 0))
      /\ UNCHANGED <<mainVars, workerVars, clock, hasTts, intervals, engine, tts,
                     workerInbox, hist>>

NextSpeak ==
    \/ ClickStart
    \/ ClickStop
    \/ OnStart
    \/ OnEnd
    \/ PostFiller
    \/ OnFillerMessage
    \/ OnTtsEnd

SpecSpeak == InitLoading /\ [][NextSpeak]_vars

\* The state once the worker's model is loaded and its ready message has
\* been handled by the main thread.
InitReady ==
    /\ clock = 0
    /\ hasTts \in BOOLEAN
    /\ isRecording = FALSE
    /\ summaryWorkerReady = TRUE
    /\ transcriptBuffer = <<>>
    /\ lastFillerTime = 0
    /\ fillerTimer = NULL
    /\ intervals = {}
    /\ lastFinalTranscriptMs = 0
    /\ lastInterimTranscriptMs = 0
    /\ isSpeakingFiller = FALSE
    /\ lastSpeechActivityMs = 0
    /\ suspendAutoRestart = FALSE
    /\ recognitionActive = FALSE
    /\ summaryInFlight = FALSE
    /\ awaitingResponseUntilMs = NULL
    /\ speechActivityAtFillerMs = NULL
    /\ lockFillersUntilSpeech = FALSE
    /\ engine = "idle"
    /\ tts = 0
    /\ workerInbox = <<>>
    /\ mainInbox = <<>>
    /\ summarizer = TRUE
    /\ isInitializing = FALSE
    /\ summarizing = 0
    /\ hist = HistInit

\* A result event of a long interview finalizes the next utterance.  The
\* worker, on its own thread, has taken the messages posted to it before the
\* recognizer delivers the next result; its summarizer() call and its replies
\* may still be pending.
OnResultNext ==
    /\ workerInbox = <<>>
    /\ OnResult({<<>>}, {Utterance(hist.finals + 1)}, MaxFinalsBuf)

\* Long interviews with a loaded summarizer, up to MaxFinalsBuf finalized
\* utterances each.
NextBuf ==
    \/ ClickStart
    \/ ClickStop
    \/ OnResultNext
    \/ OnStart
    \/ OnEnd
    \/ OnSummary
    \/ OnError
    \/ WorkerSummarize
    \/ WorkerSummarized

SpecBuf == InitReady /\ [][NextBuf]_vars

\* Interviews in which a postMessage of the interval callback may throw and
\* the recognizer may report errors.
NextThrow ==
    \/ Advance(MaxNowThrow)
    \/ ClickStart
    \/ ClickStop
    \/ Tick
    \/ TickPostThrows
    \/ OnRecognitionError
    \/ OnResult(InterimTexts, FinalTexts, MaxFinals)
    \/ OnStart
    \/ OnEnd
    \/ OnFillerMessage
    \/ OnTtsEnd
    \/ WorkerGenerate

SpecThrow == InitLoading /\ [][NextThrow]_vars

(* ---------------- properties ---------------- *)
\* C1 as stated: any two consecutive prompt dispatches of one interview,
\* whatever their kinds, are at least FILLER_COOLDOWN_MS apart.
C1_CooldownAllPairs ==
    hist.prevAt # NULL => hist.lastAt - hist.prevAt >= FILLER_COOLDOWN_MS

\* C1 as the code has it: of two consecutive prompt dispatches of one
\* interview, a filler comes at least FILLER_COOLDOWN_MS after the dispatch
\* before it, and a follow-up comes at least RESPONSE_WAIT_MS after it and
\* that dispatch is its filler.
C1_Cooldown ==
    hist.prevAt # NULL =>
        IF hist.lastKind = "filler"
        THEN hist.lastAt - hist.prevAt >= FILLER_COOLDOWN_MS
        ELSE /\ hist.lastKind = "followup"
             /\ hist.prevKind = "filler"
             /\ hist.lastAt - hist.prevAt >= RESPONSE_WAIT_MS

\* A filler was dispatched after a follow-up, in one interview.
C1_Witness ==
    /\ hist.prevKind = "followup"
    /\ hist.lastKind = "filler"
    /\ hist.lastAt - hist.prevAt >= FILLER_COOLDOWN_MS

\* The summarize messages the worker has not answered yet: those it has not
\* taken and those whose summarizer() call is pending.
Unanswered ==
    Cardinality({i \in 1..Len(workerInbox) : workerInbox[i].type = "summarize"})
        + summarizing

\* C2: at most one summarization request is outstanding at the worker at any
\* instant, across finalized transcripts, worker replies, stops and restarts.
C2_AtMostOneSummarize == Unanswered <= 1

\* A filler message is handled: speakFiller runs on its phrase.
FillerStep ==
    /\ mainInbox # <<>>
    /\ Head(mainInbox).type = "filler"
    /\ mainInbox' = Tail(mainInbox)

\* C3: at most one phrase is with speechSynthesis at any instant, and a speak
\* request that finds the speaking flag set, or whose phrase is blank, starts
\* no playback, does not stop recognition and changes neither flag.
C3_NoOverlap ==
    [][/\ tts' <= 1
       /\ (FillerStep /\ ~(~isSpeakingFiller /\ Trim(Head(mainInbox).text) # <<>>))
            => UNCHANGED <<isSpeakingFiller, suspendAutoRestart, engine, tts,
                           recognitionActive>>]_vars

\* A phrase is being spoken and the next speak request has arrived.
C3_Witness ==
    /\ isSpeakingFiller
    /\ tts = 1
    /\ mainInbox # <<>>
    /\ Head(mainInbox).type = "filler"
    /\ Trim(Head(mainInbox).text) # <<>>

\* The interval callback runs: its interval is rescheduled, its handle kept.
TickStep == fillerTimer' = fillerTimer /\ intervals' # intervals

\* A message of this type is posted to the worker.
Posted(type) ==
    /\ Len(workerInbox') = Len(workerInbox) + 1
    /\ workerInbox'[Len(workerInbox')].type = type

\* C4: when speech activity is recorded after a filler is dispatched and
\* before its deadline (issue + RESPONSE_WAIT_MS), no later tick dispatches a
\* follow-up for that filler, and the first tick at or after the deadline
\* leaves the cycle idle and dispatches nothing.
C4_ResponseResolution ==
    [][(TickStep /\ hist.lastKind = "filler" /\ hist.heard) =>
          /\ ~Posted("generate-followup")
          /\ (clock >= hist.lastAt + RESPONSE_WAIT_MS /\ ~hist.ticked) =>
                /\ awaitingResponseUntilMs' = NULL
                /\ speechActivityAtFillerMs' = NULL
                /\ ~lockFillersUntilSpeech'
                /\ workerInbox' = workerInbox]_vars

\* The first tick after the deadline of a filler that was answered in time has run.
C4_Witness ==
    /\ hist.lastKind = "filler"
    /\ hist.heard
    /\ hist.ticked
    /\ isRecording

\* C5: a filler is dispatched only after FILLER_PAUSE_MS of silence, measured
\* at the dispatching tick from the lastSpeechActivityMs of that moment.
C5_PauseThreshold ==
    [][Posted("generate-filler") =>
          clock - lastSpeechActivityMs >= FILLER_PAUSE_MS]_vars

\* A filler has just been dispatched, after a pause shorter than the response wait.
C5_Witness ==
    /\ hist.lastKind = "filler"
    /\ hist.lastAt = clock
    /\ Awaiting
    /\ clock - speechActivityAtFillerMs >= FILLER_PAUSE_MS
    /\ clock - speechActivityAtFillerMs < RESPONSE_WAIT_MS

\* C6: while fillers are locked a poll tick dispatches nothing and changes no
\* state of the page, and recorded speech activity returns the cycle to idle:
\* the lock is set only while no activity has been recorded since the
\* follow-up that set it, and after recorded activity no response is awaited.
C6_LockClearing ==
    [][/\ (lockFillersUntilSpeech /\ TickStep) =>
             UNCHANGED <<mainVars, workerInbox, mainInbox, engine, tts>>
       /\ lockFillersUntilSpeech' =>
             /\ hist'.lastKind = "followup"
             /\ hist'.silent >= 1
             /\ lastSpeechActivityMs' <= lastFillerTime'
       /\ hist'.silent = 0 =>
             /\ ~lockFillersUntilSpeech'
             /\ awaitingResponseUntilMs' = NULL
             /\ speechActivityAtFillerMs' = NULL]_vars

\* Fillers were locked, ticks ran under the lock, and the speech activity
\* recorded after them has returned the cycle to idle.
C6_Witness ==
    /\ hist.lastKind = "followup"
    /\ hist.silent = 0
    /\ ~lockFillersUntilSpeech
    /\ ~Awaiting
    /\ isRecording
    /\ lastSpeechActivityMs - hist.lastAt >= 2 * Quantum

\* C7: as long as no speech activity is recorded after a filler, at most one
\* further prompt is dispatched: two prompts at most since the last activity.
C7_NoPromptLoop == hist.silent <= 2

\* C8: while auto-restart is suspended for the playback of a prompt, no step
\* starts the recognition stream.
C8_NoStartWhileSuspended ==
    [][suspendAutoRestart' => ~(engine # "starting" /\ engine' = "starting")]_vars

(* ---------------- restart of recognition under fair scheduling ---------------- *)
NextFair ==
    \/ Advance(MaxNowFair)
    \/ ClickStart
    \/ ClickStop
    \/ Tick
    \/ OnResult(InterimTexts, FinalTexts, MaxFinals)
    \/ OnStart
    \/ OnEnd
    \/ OnFillerMessage
    \/ OnTtsEnd
    \/ WorkerGenerate

\* The engine honours start() and stop(), every playback completes, and the
\* worker and the main thread handle the messages posted to them.
FairSpec ==
    /\ InitLoading
    /\ [][NextFair]_vars
    /\ WF_vars(OnStart)
    /\ WF_vars(OnEnd /\ engine = "stopping")
    /\ WF_vars(OnTtsEnd)
    /\ WF_vars(OnFillerMessage)
    /\ WF_vars(WorkerGenerate)

\* recognition.onend fires: the stream leaves running or stopping.
EndStep == engine \in {"running", "stopping"} /\ engine' \in {"idle", "starting"}

\* C9: when the stream ends while the interview is active and auto-restart is
\* not suspended, recognition is started again; and whenever the interview is
\* active and no prompt is being spoken, the stream becomes active again, or
\* the interview is stopped or a prompt is spoken first.
C9_SelfHealing ==
    /\ [][(EndStep /\ isRecording /\ ~suspendAutoRestart) => engine' = "starting"]_vars
    /\ (isRecording /\ ~isSpeakingFiller) ~>
           (engine = "running" \/ ~isRecording \/ isSpeakingFiller)

\* The stream ran in this interview, ended, and is being started again.
C9_Witness ==
    /\ isRecording
    /\ ~suspendAutoRestart
    /\ transcriptBuffer # <<>>
    /\ engine = "starting"
    /\ ~recognitionActive

\* A playback completes, or speakFiller runs through without speechSynthesis.
SpeakDone == tts' < tts \/ (FillerStep /\ ~hasTts /\ SpeakAccepted(Head(mainInbox).text))

\* C10: when an accepted speak completes, by the end of playback, by a
\* playback error or at once without speechSynthesis, the speaking flag and
\* the suspension are cleared; recognition is not started if the interview has
\* been stopped, and if it is active the stream is started or is still
\* stopping with its auto-restart armed.
C10_SpeakExceptionSafe ==
    [][SpeakDone =>
          /\ ~isSpeakingFiller'
          /\ ~suspendAutoRestart'
          /\ ~isRecording => engine' \in {engine, "stopping"} /\ engine' # "starting"
          /\ isRecording => /\ engine' # "idle"
                            /\ engine = "idle" => engine' = "starting"
                            /\ engine' = "stopping" => (isRecording' /\ ~suspendAutoRestart')]_vars

\* The filler of this interview has been spoken to the end with speech
\* synthesis, and recognition has been started again.
C10_Witness ==
    /\ hasTts
    /\ hist.lastKind = "filler"
    /\ mainInbox = <<>>
    /\ workerInbox = <<>>
    /\ ~isSpeakingFiller
    /\ tts = 0
    /\ isRecording
    /\ engine = "starting"
    /\ clock > hist.lastAt

\* A prompt request is posted to the worker.
PromptPosted == Posted("generate-filler") \/ Posted("generate-followup")

\* C11: while the interview is stopped no interval is live and the recognizer
\* is idle or ending, whatever event arrives (stream end, late worker reply,
\* end of a playback); no step taken while stopped posts a prompt request; and
\* at no time does more than one interval exist, the live one being the
\* handle the page holds.
C11_Cancellation ==
    [][/\ ~isRecording' =>
             /\ intervals' = {}
             /\ fillerTimer' = NULL
             /\ engine' \in {"idle", "stopping"}
       /\ (~isRecording /\ ~isRecording') => ~PromptPosted
       /\ Cardinality(intervals') <= 1
       /\ \A t \in intervals' : t.id = fillerTimer']_vars

\* The interview was stopped after a filler had been requested; the reply has
\* since been spoken to the end and the stream has ended, without a restart.
C11_Witness ==
    /\ ~isRecording
    /\ hasTts
    /\ hist.lastKind = "filler"
    /\ workerInbox = <<>>
    /\ mainInbox = <<>>
    /\ tts = 0
    /\ ~isSpeakingFiller
    /\ engine = "idle"
    /\ clock > hist.lastAt

C13_FollowUpEscalation ==
    [][/\ (TickStep /\ isRecording /\ ~lockFillersUntilSpeech /\ Awaiting) =>
             IF clock < awaitingResponseUntilMs
             THEN UNCHANGED <<mainVars, workerInbox, mainInbox>>
             ELSE /\ awaitingResponseUntilMs' = NULL
                  /\ speechActivityAtFillerMs' = NULL
                  /\ UNCHANGED <<isRecording, transcriptBuffer, lastSpeechActivityMs,
                                 isSpeakingFiller, mainInbox>>
                  /\ IF hist.silent >= 1 /\ ~isSpeakingFiller
                     THEN /\ workerInbox' =
                               Append(workerInbox, Msg("generate-followup", Context, 0))
                          /\ lockFillersUntilSpeech'
                          /\ lastFillerTime' = clock
                     ELSE UNCHANGED <<workerInbox, lockFillersUntilSpeech, lastFillerTime>>
       /\ Posted("generate-followup") =>
             /\ TickStep
             /\ isRecording
             /\ Awaiting
             /\ clock >= awaitingResponseUntilMs
             /\ hist.lastKind = "filler"
             /\ hist.silent >= 1
             /\ hist'.lastKind = "followup"
       /\ Awaiting' => hist'.lastKind = "filler" /\ hist'.silent >= 1]_vars

\* The follow-up to a filler has just been posted and the fillers are locked.
C13_Witness ==
    /\ isRecording
    /\ hist.prevKind = "filler"
    /\ hist.lastKind = "followup"
    /\ hist.lastAt = clock
    /\ hist.lastAt - hist.prevAt >= RESPONSE_WAIT_MS
    /\ workerInbox # <<>>
    /\ workerInbox[Len(workerInbox)].type = "generate-followup"
    /\ lockFillersUntilSpeech
    /\ ~Awaiting
    /\ lastFillerTime = clock

\* C14: no prompt request, filler or follow-up, is posted while the transcript
\* buffer of the interview is empty.
C14_BufferEmptyGuard ==
    [][PromptPosted => Len(transcriptBuffer) > 0 /\ Len(transcriptBuffer') > 0]_vars

\* A running interview without any finalized utterance, silent for 10000 ms
\* and past the cooldown, whose poll tick has run at this time and posted
\* nothing.
C14_Witness ==
    /\ isRecording
    /\ transcriptBuffer = <<>>
    /\ clock - lastSpeechActivityMs >= 10000
    /\ clock - lastFillerTime >= FILLER_COOLDOWN_MS
    /\ ~isSpeakingFiller
    /\ ~lockFillersUntilSpeech
    /\ intervals # {}
    /\ ~TickDue
    /\ workerInbox = <<>>
    /\ hist.lastKind = "none"

\* A result event posts a summarization request (the stop action is the only
\* other step that posts one, and it changes isRecording).
TriggerStep == Posted("summarize") /\ isRecording' = isRecording

\* C15: a finalized utterance posts a summarization request only when
\* SUMMARY_TRIGGER_SENTENCES utterances, itself included, have been finalized
\* since the last such request of the interview, no request is in flight and
\* the summarizer is ready.
C15_TriggerCadence ==
    [][TriggerStep =>
          /\ hist.sinceTrigger + 1 >= SUMMARY_TRIGGER_SENTENCES
          /\ ~summaryInFlight
          /\ summaryWorkerReady]_vars

\* C16: the text of every summarization request, the one posted on stop
\* included, is the last SUMMARY_SENTENCES_WINDOW entries of the transcript
\* buffer (all of them when there are fewer), in order, joined by single
\* spaces.
C16_SummaryWindow ==
    [][Posted("summarize") =>
          workerInbox'[Len(workerInbox')].text =
              Join(LastN(transcriptBuffer', SUMMARY_SENTENCES_WINDOW))]_vars

\* The click on "Stop Interview".
StopStep == isRecording /\ ~isRecording'

MostRecent(n) ==
    LET m == IF n < MAX_TRANSCRIPT_SENTENCES THEN n ELSE MAX_TRANSCRIPT_SENTENCES
    IN [i \in 1..m |-> Trim(Utterance(n - m + i))]

\* C18: the transcript buffer never holds more than MAX_TRANSCRIPT_SENTENCES
\* entries; it holds the most recent finalized utterances of the current
\* interview in arrival order; and it is changed only by the start of an
\* interview, which empties it, and by a result event that finalizes one more
\* utterance.
C18_BufferBound ==
    [][/\ Len(transcriptBuffer') <= MAX_TRANSCRIPT_SENTENCES
       /\ transcriptBuffer' = MostRecent(hist'.finals)
       /\ transcriptBuffer' # transcriptBuffer =>
             \/ ~isRecording /\ isRecording' /\ transcriptBuffer' = <<>>
             \/ /\ engine \in {"running", "stopping"}
                /\ hist'.finals = hist.finals + 1
                /\ isRecording' = isRecording]_vars

\* More than MAX_TRANSCRIPT_SENTENCES utterances have been finalized in this
\* interview and the oldest have been evicted.
C18_Witness ==
    /\ hist.finals > MAX_TRANSCRIPT_SENTENCES
    /\ Len(transcriptBuffer) = MAX_TRANSCRIPT_SENTENCES
    /\ transcriptBuffer[1] = Trim(Utterance(hist.finals - MAX_TRANSCRIPT_SENTENCES + 1))
    /\ transcriptBuffer[MAX_TRANSCRIPT_SENTENCES] = Trim(Utterance(hist.finals))

\* The worker takes a summarize message.
SummarizeStep ==
    /\ workerInbox # <<>>
    /\ Head(workerInbox).type = "summarize"
    /\ workerInbox' = Tail(workerInbox)

\* C19: a summarize message whose text is empty or shorter than
\* MIN_SUMMARY_CHARS once trimmed is answered at once by exactly one summary
\* message carrying the sentinel, never by an error and without a call of
\* the summarizer, whether or not the model is loaded.
C19_MinimumLength ==
    [][(/\ SummarizeStep
        /\ \/ Head(workerInbox).text = <<>>
           \/ Len(Trim(Head(workerInbox).text)) < MIN_SUMMARY_CHARS) =>
          /\ mainInbox' = Append(mainInbox, Msg("summary", NotEnough, 0))
          /\ summarizing' = summarizing]_vars

\* A short text has been answered with the sentinel by a worker whose model is
\* not loaded.
C19_Witness ==
    /\ ~summarizer
    /\ mainInbox # <<>>
    /\ mainInbox[Len(mainInbox)] = Msg("summary", NotEnough, 0)

\* C20: when a prompt phrase starts to be spoken, no speech activity has been
\* recorded during the FILLER_PAUSE_MS before.
C20_SpokenAfterPause ==
    [][(FillerStep /\ SpeakAccepted(Head(mainInbox).text)) =>
          clock - lastSpeechActivityMs >= FILLER_PAUSE_MS]_vars

\* C21: a summarization request is posted only once the worker has loaded its
\* summarizer (and so has sent ready), and the main thread takes the
\* summarizer for ready only then.
C21_InitializedGuard ==
    [][/\ Posted("summarize") => summarizer
       /\ summaryWorkerReady' => summarizer']_vars

\* C22: a tick whose conditions call for a prompt advances the cycle whether
\* or not the post succeeds: for a filler, lastFillerTime is stamped and the
\* response is awaited; for a follow-up, the fillers are locked, the wait is
\* ended and lastFillerTime is stamped.
C22_RollForward ==
    [][(TickStep /\ isRecording /\ ~lockFillersUntilSpeech) =>
          /\ (~Awaiting /\ FillerDue(clock)) =>
                /\ lastFillerTime' = clock
                /\ awaitingResponseUntilMs' = clock + RESPONSE_WAIT_MS
                /\ speechActivityAtFillerMs' = lastSpeechActivityMs
          /\ (Awaiting /\ clock >= awaitingResponseUntilMs /\ FollowUpDue) =>
                /\ lockFillersUntilSpeech'
                /\ awaitingResponseUntilMs' = NULL
                /\ speechActivityAtFillerMs' = NULL
                /\ lastFillerTime' = clock]_vars

\* The cycle is cancelled: no lock, no awaited response.
Cancelled ==
    /\ ~lockFillersUntilSpeech
    /\ awaitingResponseUntilMs = NULL
    /\ speechActivityAtFillerMs = NULL

\* A result event with these texts: recognition.onresult leaves the recognizer,
\* the clock, the button state, the intervals, the playback and the messages
\* of the worker alone.
ResultStep(interim, finalized) ==
    /\ UNCHANGED <<engine, clock, isRecording, intervals, tts, mainInbox>>
    /\ OnResultOf(interim, finalized, MaxFinals)

\* C23 as stated: a result event with an interim text, or with a finalized
\* text, whatever the text, stamps lastSpeechActivityMs and the timestamp of
\* its kind with the time of the event and cancels the cycle.
C23_ActivityAnyText ==
    [][\A interim \in InterimTexts, finalized \in FinalTexts :
          ResultStep(interim, finalized) =>
             /\ interim # <<>> =>
                   /\ lastInterimTranscriptMs' = clock
                   /\ lastSpeechActivityMs' = clock
                   /\ Cancelled'
             /\ finalized # <<>> =>
                   /\ lastFinalTranscriptMs' = clock
                   /\ lastSpeechActivityMs' = clock
                   /\ Cancelled']_vars

\* C23 as the code has it: a result event stamps and cancels for an interim
\* text, or a finalized text, that is not blank; an event whose texts are
\* empty or blank changes no state of the page.
C23_ActivityRecording ==
    [][\A interim \in InterimTexts, finalized \in FinalTexts :
          ResultStep(interim, finalized) =>
             /\ Trim(interim) # <<>> =>
                   /\ lastInterimTranscriptMs' = clock
                   /\ lastSpeechActivityMs' = clock
                   /\ Cancelled'
             /\ Trim(finalized) # <<>> =>
                   /\ lastFinalTranscriptMs' = clock
                   /\ lastSpeechActivityMs' = clock
                   /\ Cancelled'
             /\ Trim(interim) = <<>> => lastInterimTranscriptMs' = lastInterimTranscriptMs
             /\ Trim(finalized) = <<>> =>
                   /\ lastFinalTranscriptMs' = lastFinalTranscriptMs
                   /\ transcriptBuffer' = transcriptBuffer
             /\ (Trim(interim) = <<>> /\ Trim(finalized) = <<>>) =>
                   UNCHANGED <<mainVars, workerInbox>>]_vars

\* An interim result, without a finalized one, has been recorded at this time
\* within the wait that followed a filler, and has ended that wait.
C23_Witness ==
    /\ hist.lastKind = "filler"
    /\ hist.heard
    /\ clock > hist.lastAt
    /\ lastInterimTranscriptMs = clock
    /\ lastSpeechActivityMs = clock
    /\ lastFinalTranscriptMs < clock
    /\ Cancelled

\* C24: between handlers, fillers are never locked while a response is
\* awaited, and the deadline of the wait and the activity time recorded at
\* issue are both set or both unset.
C24_CycleWellFormed ==
    /\ ~(lockFillersUntilSpeech /\ awaitingResponseUntilMs # NULL)
    /\ ~(lockFillersUntilSpeech /\ speechActivityAtFillerMs # NULL)
    /\ (awaitingResponseUntilMs = NULL) <=> (speechActivityAtFillerMs = NULL)

\* The fillers have stayed locked, with no wait set, since an earlier tick,
\* in an interview that has awaited the response to a filler before.
C24_Witness ==
    /\ isRecording
    /\ lockFillersUntilSpeech
    /\ ~Awaiting
    /\ hist.prevKind = "filler"
    /\ hist.lastKind = "followup"
    /\ clock > hist.lastAt
    /\ ~TickDue

\* The later of two times.
Max(a, b) == IF a >= b THEN a ELSE b

\* C25: lastSpeechActivityMs is the later of lastFinalTranscriptMs and
\* lastInterimTranscriptMs.
C25_ActivityIsMax ==
    lastSpeechActivityMs = Max(lastFinalTranscriptMs, lastInterimTranscriptMs)

\* An interim result has been recorded later than the last finalized
\* utterance of the interview.
C25_Witness ==
    /\ isRecording
    /\ transcriptBuffer # <<>>
    /\ lastInterimTranscriptMs > lastFinalTranscriptMs
    /\ lastSpeechActivityMs = lastInterimTranscriptMs

\* The recognizer reports an error: it leaves starting or running for its
\* end, while no interval is cleared and no worker message is taken (as the
\* stop action and the start of a playback would).
ErrorStep ==
    /\ engine \in {"starting", "running"}
    /\ engine' = "stopping"
    /\ intervals' = intervals
    /\ mainInbox' = mainInbox

\* C26: a recognition error changes no control state of the page: the
\* recording and suspend flags, the activity timestamps, the prompt cycle, the
\* poll timer and the messages stay as they are, so that the end event that
\* follows still restarts recognition.
C26_ErrorFrame ==
    [][ErrorStep =>
          /\ UNCHANGED <<mainVars, intervals, tts, workerInbox, mainInbox, clock>>
          /\ (isRecording /\ ~suspendAutoRestart) => (isRecording' /\ ~suspendAutoRestart')]_vars

\* After an error of the recognizer in this interview the stream has ended
\* and is running again, and the poll timer is live and has ticked.
C26_Witness ==
    /\ hist.erred
    /\ isRecording
    /\ engine = "running"
    /\ recognitionActive
    /\ intervals # {}
    /\ ~TickDue
    /\ clock > 0

\* FairSpec where, besides, time passes and the interval keeps firing.
FairTickSpec ==
    /\ FairSpec
    /\ WF_vars(Advance(MaxNowFair))
    /\ WF_vars(Tick)

\* The times at which speech activity may have been recorded last, early
\* enough for the cooldown to run out before the clock of the model stops.
EarlyTimes ==
    {k * Quantum : k \in 0..((MaxNowFair - FILLER_COOLDOWN_MS - Quantum) \div Quantum)}

\* The interview is running with a non-empty buffer and an idle cycle, and
\* speech activity was last recorded at time a.
SilentSince(a) ==
    /\ isRecording
    /\ transcriptBuffer # <<>>
    /\ ~lockFillersUntilSpeech
    /\ ~Awaiting
    /\ lastSpeechActivityMs = a
    /\ clock \in EarlyTimes

NextRelease ==
    \/ ClickStart
    \/ ClickStop
    \/ OnResult({<<>>}, LongTexts, MaxFinalsSum)
    \/ OnStart
    \/ OnEnd
    \/ OnModelLoad
    \/ OnReady
    \/ OnSummary
    \/ OnError
    \/ WorkerProgress
    \/ WorkerPipelineLoaded
    \/ WorkerPipelineFailed
    \/ WorkerSummarize
    \/ WorkerSummarized

\* InitLoading in a browser with speech synthesis.
InitRelease == InitLoading /\ hasTts

\* NextRelease where every message is eventually taken by its receiver and
\* every pending call of summarizer() eventually settles.
FairSumSpec ==
    /\ InitRelease
    /\ [][NextRelease]_vars
    /\ WF_vars(OnModelLoad)
    /\ WF_vars(OnReady)
    /\ WF_vars(OnSummary)
    /\ WF_vars(OnError)
    /\ SF_vars(WorkerSummarize)
    /\ SF_vars(WorkerSummarized)

\* The summary and error messages the main thread has not handled yet.
Replies ==
    Cardinality({i \in 1..Len(mainInbox) : mainInbox[i].type \in {"summary", "error"}})

\* The worker takes a summarize message.
AcceptStep ==
    /\ workerInbox # <<>>
    /\ Head(workerInbox).type = "summarize"
    /\ workerInbox' = Tail(workerInbox)

\* A pending call of summarizer() settles.
SettleStep == summarizing' = summarizing - 1

\* The main thread handles a summary or an error message.
ReplyStep ==
    /\ mainInbox # <<>>
    /\ Head(mainInbox).type \in {"summary", "error"}
    /\ mainInbox' = Tail(mainInbox)

\* C28: the worker answers every summarize message it takes with exactly one
\* summary or error message, at once or when summarizer() settles; the main
\* thread clears summaryInFlight on that message; and a set summaryInFlight is
\* eventually cleared.
C28_SlotReleased ==
    /\ [][/\ AcceptStep =>
               \/ Replies' = Replies + 1 /\ summarizing' = summarizing
               \/ Replies' = Replies /\ summarizing' = summarizing + 1
          /\ SettleStep => Replies' = Replies + 1
          /\ ReplyStep => ~summaryInFlight']_vars
    /\ summaryInFlight ~> ~summaryInFlight

\* A summarization triggered by the last finalized transcript of the running
\* interview has been answered, and its reply has cleared summaryInFlight.
C28_Witness ==
    /\ isRecording
    /\ summarizer
    /\ hist.sinceTrigger = 0
    /\ transcriptBuffer # <<>>
    /\ ~summaryInFlight
    /\ Unanswered = 0
    /\ Replies = 0

\* The click that starts an interview.
StartStep == ~isRecording /\ isRecording'

\* C29: the click that starts an interview leaves the buffer empty, the cycle
\* idle and the three activity stamps and lastFillerTime at the time of the
\* click; while the interview runs lastFillerTime changes only when a prompt
\* is dispatched; and the first prompt dispatched in an interview is a filler,
\* FILLER_COOLDOWN_MS or more after lastFillerTime, that is, after the start.
C29_CleanStart ==
    [][/\ StartStep =>
            /\ transcriptBuffer' = <<>>
            /\ Cancelled'
            /\ lastFillerTime' = clock
            /\ lastFinalTranscriptMs' = clock
            /\ lastInterimTranscriptMs' = clock
            /\ lastSpeechActivityMs' = clock
            /\ hist'.lastKind = "none"
            /\ ~PromptPosted
       /\ (isRecording /\ isRecording' /\ ~PromptPosted) =>
            lastFillerTime' = lastFillerTime
       /\ (PromptPosted /\ hist.lastKind = "none") =>
            /\ isRecording
            /\ Posted("generate-filler")
            /\ clock - lastFillerTime >= FILLER_COOLDOWN_MS
            /\ lastFillerTime' = clock]_vars

\* An interview has just been started while the reply to a prompt of the
\* interview before is still on its way.
C29_Witness ==
    /\ isRecording
    /\ hist.lastKind = "none"
    /\ transcriptBuffer = <<>>
    /\ Cancelled
    /\ lastFillerTime = clock
    /\ lastSpeechActivityMs = clock
    /\ clock >= FILLER_COOLDOWN_MS
    /\ mainInbox # <<>>

====
